---- MODULE Spec2Model ----
(***************************************************************************)
(* Array utilities of JS-Unit-Tests: the mixed-value comparator, bubble    *)
(* sort and quick sort, the fluent Validation chain and the array          *)
(* operations guarded by it.                                               *)
(*                                                                         *)
(* A JavaScript value is a record [t, n, s, e]: t is its type tag, n the   *)
(* value of a number, s the characters of a string (a sequence of          *)
(* one-character strings), e the elements of an array.  The caller-owned   *)
(* array is the variable array, a sequence of such values.                 *)
(***************************************************************************)
EXTENDS Integers, Sequences, FiniteSets

\* Longest caller array drawn by Init (the literal array of the sort tests
\* is added on top of it).
MaxLen == 3

\* Longest list passed as the values of an editing operation.
MaxValues == 2

(***************************************************************************)
(* JavaScript values                                                       *)
(***************************************************************************)
Num(n) == [t |-> "number", n |-> n, s |-> <<>>, e |-> <<>>]

Str(s) == [t |-> "string", n |-> 0, s |-> s, e |-> <<>>]

Arr(e) == [t |-> "array", n |-> 0, s |-> <<>>, e |-> e]

Null == [t |-> "null", n |-> 0, s |-> <<>>, e |-> <<>>]

\* undefined, also an argument left out of a call
Undefined == [t |-> "undefined", n |-> 0, s |-> <<>>, e |-> <<>>]

\* A value of type function (an arrow function, a handler of POSITION_HANDLERS).
Fn == [t |-> "function", n |-> 0, s |-> <<>>, e |-> <<>>]

\* true or false
Bool(b) == [t |-> "boolean", n |-> IF b THEN 1 ELSE 0, s |-> <<>>, e |-> <<>>]

\* The result of Number(x): NaN or an integer.
NaN == [nan |-> TRUE, n |-> 0]

Finite(n) == [nan |-> FALSE, n |-> n]

DigitChars == <<"0", "1", "2", "3", "4", "5", "6", "7", "8", "9">>

Digits == {DigitChars[d] : d \in 1..10}

IsDigit(c) == c \in Digits

DigitValues == [c \in Digits |-> (CHOOSE d \in 1..10 : DigitChars[d] = c) - 1]

DigitValue(c) == DigitValues[c]

RECURSIVE DigitsToInt(_)
\* The value of a non-empty run of decimal digits.
DigitsToInt(s) ==
    IF Len(s) = 0 THEN 0
    ELSE 10 * DigitsToInt(SubSeq(s, 1, Len(s) - 1)) + DigitValue(s[Len(s)])

AllDigits(s) == Len(s) > 0 /\ \A i \in 1..Len(s) : IsDigit(s[i])

RECURSIVE TrimLeft(_)
TrimLeft(s) == IF Len(s) > 0 /\ Head(s) = " " THEN TrimLeft(Tail(s)) ELSE s

RECURSIVE TrimRight(_)
TrimRight(s) ==
    IF Len(s) > 0 /\ s[Len(s)] = " " THEN TrimRight(SubSeq(s, 1, Len(s) - 1)) ELSE s

\* String.prototype.trim
Trim(s) == TrimRight(TrimLeft(s))

\* Number(s) of a string: surrounding blanks are dropped, the empty string is
\* 0, an optionally signed run of digits is its value, anything else is NaN.
\* (Fractions, exponents, radix prefixes and "Infinity" do not occur in the
\* strings drawn here; numbers are integers.)
StringToNumber(s) ==
    LET u == Trim(s) IN
    IF Len(u) = 0 THEN Finite(0)
    ELSE IF AllDigits(u) THEN Finite(DigitsToInt(u))
    ELSE IF Head(u) = "-" /\ AllDigits(Tail(u)) THEN Finite(0 - DigitsToInt(Tail(u)))
    ELSE IF Head(u) = "+" /\ AllDigits(Tail(u)) THEN Finite(DigitsToInt(Tail(u)))
    ELSE NaN

\* Number(v)
ToNumber(v) ==
    CASE v.t = "number" -> Finite(v.n)
      [] v.t = "string" -> StringToNumber(v.s)
      [] v.t = "null" -> Finite(0)
      [] v.t = "boolean" -> Finite(v.n)
      [] OTHER -> NaN

RECURSIVE NatToString(_)
NatToString(n) ==
    IF n < 10 THEN <<DigitChars[n + 1]>>
    ELSE NatToString(n \div 10) \o <<DigitChars[(n % 10) + 1]>>

IntToString(n) == IF n < 0 THEN <<"-">> \o NatToString(0 - n) ELSE NatToString(n)

\* Number.prototype.toString of the result of Number(x)
NumberToString(num) == IF num.nan THEN <<"N", "a", "N">> ELSE IntToString(num.n)

\* x.toString() / String(x) of a number or a string
StringOf(v) ==
    CASE v.t = "number" -> IntToString(v.n)
      [] v.t = "string" -> v.s
      [] v.t = "boolean" -> IF v.n = 1 THEN <<"t", "r", "u", "e">>
                                       ELSE <<"f", "a", "l", "s", "e">>
      [] OTHER -> <<"?">>

(***************************************************************************)
(* String.prototype.localeCompare under the root collation: blank and      *)
(* punctuation sort before digits, digits before letters; letters compare  *)
(* without regard to case first, and lower case sorts before upper case    *)
(* only when everything else is equal.                                     *)
(***************************************************************************)
CollationOrder ==
    <<" ", "-", "+", "0", "1", "2", "3", "4", "5", "6", "7", "8", "9",
      "a", "b", "c", "d", "e", "f", "g", "h", "i", "j", "k", "l", "m",
      "n", "o", "p", "q", "r", "s", "t", "u", "v", "w", "x", "y", "z">>

UpperCase ==
    <<"A", "B", "C", "D", "E", "F", "G", "H", "I", "J", "K", "L", "M",
      "N", "O", "P", "Q", "R", "S", "T", "U", "V", "W", "X", "Y", "Z">>

LowerCase ==
    <<"a", "b", "c", "d", "e", "f", "g", "h", "i", "j", "k", "l", "m",
      "n", "o", "p", "q", "r", "s", "t", "u", "v", "w", "x", "y", "z">>

Letters == {LowerCase[i] : i \in 1..Len(LowerCase)} \cup {UpperCase[i] : i \in 1..Len(UpperCase)}

Chars == {CollationOrder[i] : i \in 1..Len(CollationOrder)} \cup Letters

IsUpper(c) == \E i \in 1..Len(UpperCase) : UpperCase[i] = c

ToLower(c) ==
    IF IsUpper(c) THEN LowerCase[CHOOSE i \in 1..Len(UpperCase) : UpperCase[i] = c] ELSE c

PrimaryWeights ==
    [c \in Chars |-> CHOOSE i \in 1..Len(CollationOrder) : CollationOrder[i] = ToLower(c)]

TertiaryWeights == [c \in Chars |-> IF IsUpper(c) THEN 1 ELSE 0]

PrimaryWeight(c) == PrimaryWeights[c]

TertiaryWeight(c) == TertiaryWeights[c]

RECURSIVE CompareWeights(_, _)
\* -1, 0 or 1: the first position where two weight sequences differ decides.
CompareWeights(k1, k2) ==
    IF Len(k1) = 0 /\ Len(k2) = 0 THEN 0
    ELSE IF Len(k1) = 0 THEN 0 - 1
    ELSE IF Len(k2) = 0 THEN 1
    ELSE IF Head(k1) < Head(k2) THEN 0 - 1
    ELSE IF Head(k1) > Head(k2) THEN 1
    ELSE CompareWeights(Tail(k1), Tail(k2))

localeCompare(s1, s2) ==
    LET p == CompareWeights([i \in 1..Len(s1) |-> PrimaryWeight(s1[i])],
                            [i \in 1..Len(s2) |-> PrimaryWeight(s2[i])])
    IN IF p # 0 THEN p
       ELSE CompareWeights([i \in 1..Len(s1) |-> TertiaryWeight(s1[i])],
                           [i \in 1..Len(s2) |-> TertiaryWeight(s2[i])])

(***************************************************************************)
(* The mixed-value comparator                                              *)
(***************************************************************************)
\* compareValues with its first two tests in the other order: two strings are
\* compared as text even when both are numeric.
compareValuesTextFirst(a, b) ==
    LET numA == ToNumber(a)
        numB == ToNumber(b)
    IN IF a.t = "string" /\ b.t = "string" THEN localeCompare(a.s, b.s)
       ELSE IF ~numA.nan /\ ~numB.nan THEN numA.n - numB.n
       ELSE localeCompare(NumberToString(numA), StringOf(b))

compareValues(a, b) ==
    LET numA == ToNumber(a)
        numB == ToNumber(b)
    IN IF ~numA.nan /\ ~numB.nan THEN numA.n - numB.n
       ELSE IF a.t = "string" /\ b.t = "string" THEN localeCompare(a.s, b.s)
       ELSE localeCompare(NumberToString(numA), StringOf(b))

(***************************************************************************)
(* The Validation chain: the bound value and the failures recorded so far  *)
(***************************************************************************)
NoError == "none"

\* Truthiness of a value passed as the condition of check
Truthy(v) ==
    CASE v.t \in {"null", "undefined"} -> FALSE
      [] v.t = "number" -> v.n # 0
      [] v.t = "string" -> Len(v.s) > 0
      [] v.t = "boolean" -> v.n = 1
      [] OTHER -> TRUE

startsFor(value) == [value |-> value, errors |-> <<>>]

\* check that stops recording after the first failure
checkFirstOnly(chain, condition, message) ==
    IF ~condition /\ Len(chain.errors) = 0
    THEN [chain EXCEPT !.errors = Append(@, message)]
    ELSE chain

check(chain, condition, message) ==
    IF ~condition THEN [chain EXCEPT !.errors = Append(@, message)] ELSE chain

validate(chain) == IF Len(chain.errors) > 0 THEN chain.errors[1] ELSE NoError

\* checkNullOrEmpty that lets a string of blanks through
checkNullOrEmptyUntrimmed(chain, message) ==
    check(chain,
          /\ chain.value.t \notin {"null", "undefined"}
          /\ ~(chain.value.t = "array" /\ Len(chain.value.e) = 0)
          /\ (chain.value.t # "string" \/ Len(chain.value.s) > 0),
          message)

checkNullOrEmpty(chain, message) ==
    check(chain,
          /\ chain.value.t \notin {"null", "undefined"}
          /\ ~(chain.value.t = "array" /\ Len(chain.value.e) = 0)
          /\ (chain.value.t # "string" \/ Len(Trim(chain.value.s)) > 0),
          message)

checkNumber(chain, message) == check(chain, chain.value.t = "number", message)

checkArray(chain, message) == check(chain, chain.value.t = "array", message)

\* The word "function" as a string value
FunctionWord == Str(<<"f", "u", "n", "c", "t", "i", "o", "n">>)

\* this.value === 'function' || typeof this.value === 'function'
checkFunction(chain, message) ==
    check(chain, chain.value = FunctionWord \/ chain.value.t = "function", message)

\* value > 0: the value is converted to a number, and NaN > 0 is false
checkPositiveNumber(chain, message) ==
    check(chain, ~ToNumber(chain.value).nan /\ ToNumber(chain.value).n > 0, message)

(***************************************************************************)
(* Sorting                                                                 *)
(***************************************************************************)
Asc == Str(<<"a", "s", "c">>)

Desc == Str(<<"d", "e", "s", "c">>)

RECURSIVE BubbleInnerAscending(_, _, _, _)
\* The inner loop of bubbleSort with the order flag ignored
BubbleInnerAscending(st, i, j, order) ==
    IF j < Len(st.arr) - i - 1
    THEN LET comparison == compareValues(st.arr[j + 1], st.arr[j + 2])
             arr == IF comparison > 0
                    THEN [st.arr EXCEPT ![j + 1] = st.arr[j + 2], ![j + 2] = st.arr[j + 1]]
                    ELSE st.arr
         IN BubbleInnerAscending([arr |-> arr, cmp |-> st.cmp + 1], i, j + 1, order)
    ELSE st

\* A sort in progress: the array and the number of compareValues calls so far
RECURSIVE BubbleInner(_, _, _, _)
\* for (let j = ...; j < array.length - i - 1; j++): j and i count from 0
BubbleInner(st, i, j, order) ==
    IF j < Len(st.arr) - i - 1
    THEN LET comparison == compareValues(st.arr[j + 1], st.arr[j + 2])
             swap == \/ (order = Asc /\ comparison > 0)
                     \/ (order = Desc /\ comparison < 0)
             arr == IF swap
                    THEN [st.arr EXCEPT ![j + 1] = st.arr[j + 2], ![j + 2] = st.arr[j + 1]]
                    ELSE st.arr
         IN BubbleInner([arr |-> arr, cmp |-> st.cmp + 1], i, j + 1, order)
    ELSE st

RECURSIVE BubbleOuter(_, _, _)
\* for (let i = 0; i < array.length - 1; i++)
BubbleOuter(st, i, order) ==
    IF i < Len(st.arr) - 1
    THEN BubbleOuter(BubbleInner(st, i, 0, order), i + 1, order)
    ELSE st

\* The error of a recursion that never returns: the call stack runs out
RangeError == "RangeError"

RECURSIVE sortTiesRight(_, _)
\* sort with the elements that tie with the pivot sent to the right bucket
sortTiesRight(arr, order) ==
    IF Len(arr) <= 1 THEN [arr |-> arr, cmp |-> 0, depth |-> 1, overflow |-> FALSE]
    ELSE LET pivot == arr[(Len(arr) \div 2) + 1]
             toLeft(item) ==
                 \/ (order = Asc /\ compareValues(item, pivot) < 0)
                 \/ (order = Desc /\ compareValues(item, pivot) > 0)
             toRight(item) == ~toLeft(item)
             lefts == SelectSeq(arr, toLeft)
             rights == SelectSeq(arr, toRight)
             left == sortTiesRight(lefts, order)
             right == sortTiesRight(rights, order)
         IN IF Len(lefts) = Len(arr) \/ Len(rights) = Len(arr)
            THEN [arr |-> arr, cmp |-> Len(arr), depth |-> 1, overflow |-> TRUE]
            ELSE [arr |-> left.arr \o right.arr,
                  cmp |-> Len(arr) + left.cmp + right.cmp,
                  depth |-> 1 + (IF left.depth > right.depth THEN left.depth
                                 ELSE right.depth),
                  overflow |-> left.overflow \/ right.overflow]

RECURSIVE sort(_, _)
\* The inner function sort of quickSort: three buckets around the middle
\* element.  depth is the number of calls of sort that are open at once.  A
\* call that hands a bucket as long as its own argument to sort would be
\* repeated without end (same list, same pivot): overflow stands for it.
sort(arr, order) ==
    IF Len(arr) <= 1 THEN [arr |-> arr, cmp |-> 0, depth |-> 1, overflow |-> FALSE]
    ELSE LET pivot == arr[(Len(arr) \div 2) + 1]
             toLeft(item) ==
                 \/ (order = Asc /\ compareValues(item, pivot) < 0)
                 \/ (order = Desc /\ compareValues(item, pivot) > 0)
             toRight(item) ==
                 /\ ~toLeft(item)
                 /\ \/ (order = Asc /\ compareValues(item, pivot) > 0)
                    \/ (order = Desc /\ compareValues(item, pivot) < 0)
             toEqual(item) == ~toLeft(item) /\ ~toRight(item)
             lefts == SelectSeq(arr, toLeft)
             rights == SelectSeq(arr, toRight)
             left == sort(lefts, order)
             right == sort(rights, order)
         IN IF Len(lefts) = Len(arr) \/ Len(rights) = Len(arr)
            THEN [arr |-> arr, cmp |-> Len(arr), depth |-> 1, overflow |-> TRUE]
            ELSE [arr |-> left.arr \o SelectSeq(arr, toEqual) \o right.arr,
                  cmp |-> Len(arr) + left.cmp + right.cmp,
                  depth |-> 1 + (IF left.depth > right.depth THEN left.depth
                                 ELSE right.depth),
                  overflow |-> left.overflow \/ right.overflow]

\* What a call leaves behind: the caller's array, the error raised (or
\* NoError), the failures the raising chain had recorded, the value returned
\* and the number of compareValues calls made.
Outcome(arr, err, errs, res, cmp) ==
    [array |-> arr, error |-> err, errors |-> errs, result |-> res, compares |-> cmp]

Raised(arr, chain) == Outcome(arr, validate(chain), chain.errors, Undefined, 0)

\* The two validations shared by bubbleSort and quickSort; order is the
\* parameter after its default has been applied.
SortArrayChain(arg) ==
    checkNullOrEmpty(checkArray(startsFor(arg), "Provided array is invalid."),
                     "Provided array is null or empty.")

SortOrderChain(order) ==
    check(startsFor(order), order \in {Asc, Desc}, "Order must be 'asc' or 'desc'.")

\* bubbleSort with the order validated before the array
bubbleSortOrderFirst(arr, arg, ord) ==
    LET order == IF ord = Undefined THEN Asc ELSE ord
    IN IF validate(SortOrderChain(order)) # NoError
       THEN Raised(arr, SortOrderChain(order))
       ELSE IF validate(SortArrayChain(arg)) # NoError
            THEN Raised(arr, SortArrayChain(arg))
       ELSE LET st == BubbleOuter([arr |-> arr, cmp |-> 0], 0, order)
            IN Outcome(st.arr, NoError, <<>>, Undefined, st.cmp)

\* bubbleSort(arg, ord) where arg is the caller's array arr or a non-array
bubbleSort(arr, arg, ord) ==
    LET order == IF ord = Undefined THEN Asc ELSE ord
    IN IF validate(SortArrayChain(arg)) # NoError THEN Raised(arr, SortArrayChain(arg))
       ELSE IF validate(SortOrderChain(order)) # NoError
            THEN Raised(arr, SortOrderChain(order))
       ELSE LET st == BubbleOuter([arr |-> arr, cmp |-> 0], 0, order)
            IN Outcome(st.arr, NoError, <<>>, Undefined, st.cmp)

quickSort(arr, arg, ord) ==
    LET order == IF ord = Undefined THEN Asc ELSE ord
    IN IF validate(SortArrayChain(arg)) # NoError THEN Raised(arr, SortArrayChain(arg))
       ELSE IF validate(SortOrderChain(order)) # NoError
            THEN Raised(arr, SortOrderChain(order))
       ELSE LET sortedArray == sort(arr, order)
            \* sort returns arr itself when it has one element: array.length = 0
            \* then empties the very array that push(...sortedArray) spreads
            IN IF sortedArray.overflow
               THEN Outcome(arr, RangeError, <<>>, Undefined, sortedArray.cmp)
               ELSE Outcome(IF Len(arr) <= 1 THEN <<>> ELSE sortedArray.arr,
                            NoError, <<>>, Undefined, sortedArray.cmp)

(***************************************************************************)
(* removeByCount                                                           *)
(***************************************************************************)
Start == Str(<<"s", "t", "a", "r", "t">>)

End == Str(<<"e", "n", "d">>)

\* A property name every object inherits from Object.prototype
InheritedKey == Str(<<"t", "o", "S", "t", "r", "i", "n", "g">>)

\* POSITION_HANDLERS[position]: the two own handlers, an inherited method, or
\* undefined
PositionHandler(position) ==
    IF position \in {Start, End, InheritedKey} THEN Fn ELSE Undefined

\* arr.splice(0, cnt)
SpliceStart(arr, cnt) ==
    SubSeq(arr, (IF cnt < Len(arr) THEN cnt ELSE Len(arr)) + 1, Len(arr))

\* splice at the end that takes the elements from the start
SpliceEndFromStart(arr, cnt) ==
    SubSeq(arr, (IF cnt < Len(arr) THEN cnt ELSE Len(arr)) + 1, Len(arr))

\* arr.splice(-cnt, cnt)
SpliceEnd(arr, cnt) ==
    LET from == IF Len(arr) - cnt > 0 THEN Len(arr) - cnt ELSE 0
    IN SubSeq(arr, 1, from)

RemoveArrayChain(arg) ==
    checkNullOrEmpty(checkArray(startsFor(arg), "Provided array is invalid."),
                     "Array is empty.")

RemoveCountChain(count, position) ==
    check(checkPositiveNumber(
              checkNumber(
                  checkNullOrEmpty(startsFor(count), "Count is required."),
                  "Provided count invalid."),
              "Provided count must be positive."),
          Truthy(PositionHandler(position)),
          "Invalid position specified. Use 'start' or 'end'.")

removeByCount(arr, arg, count, pos) ==
    LET position == IF pos = Undefined THEN Start ELSE pos
    IN IF validate(RemoveArrayChain(arg)) # NoError THEN Raised(arr, RemoveArrayChain(arg))
       ELSE IF validate(RemoveCountChain(count, position)) # NoError
            THEN Raised(arr, RemoveCountChain(count, position))
       ELSE Outcome(CASE position = Start -> SpliceStart(arr, count.n)
                      [] position = End -> SpliceEnd(arr, count.n)
                      [] OTHER -> arr,
                    NoError, <<>>, Undefined, 0)

(***************************************************************************)
(* addUniqueValues, replaceWithFlatValues, removeValues, convertToStrings  *)
(***************************************************************************)
\* The error a built-in raises (a property of null, a method that is missing,
\* a call of something that is not a function): not a Validation failure
TypeError == "TypeError"

\* LOGS_CONFIG.OUTPUT_MODES: console, file, both
OUTPUT_MODES ==
    {Str(<<"c", "o", "n", "s", "o", "l", "e">>), Str(<<"f", "i", "l", "e">>),
     Str(<<"b", "o", "t", "h">>)}

\* LOGS_CONFIG.LOG_MODE: process.env.LOG_MODE || "console", for env the value
\* of the environment variable (undefined when it is not set)
LOG_MODE(env) ==
    IF env = Undefined \/ env = Str(<<>>)
    THEN Str(<<"c", "o", "n", "s", "o", "l", "e">>)
    ELSE env

\* createLogger returns a logger for the three output modes and falls off its
\* end, returning undefined, for every other mode
createLogger(env) == IF LOG_MODE(env) \in OUTPUT_MODES THEN Fn ELSE Undefined

\* logWithTimestamp(message) for a message that is not empty: the call
\* writeLog(message, style, true) raises when writeLog is not a function
logWithTimestamp(env) ==
    IF createLogger(env).t = "function" THEN NoError ELSE TypeError

\* performActionsWithMessage(message, actionsToPerform): the message is logged
\* before the actions run, so an error of the logger leaves arr as it is; out
\* is what the actions make of arr
performActionsWithMessage(env, arr, out) ==
    IF logWithTimestamp(env) # NoError
    THEN Outcome(arr, logWithTimestamp(env), <<>>, Undefined, 0)
    ELSE out

\* What the action is applied to, in order: every item of an array, or the
\* value itself
performActionToArrayOrValue(value) ==
    IF value.t = "array" THEN value.e ELSE <<value>>

\* arr.includes(value): numbers, strings and booleans are equal by type and
\* value
Includes(arr, value) == \E i \in 1..Len(arr) : arr[i] = value

\* arr.indexOf(value), counted from 0; -1 when absent
IndexOf(arr, value) ==
    IF Includes(arr, value)
    THEN (CHOOSE i \in 1..Len(arr) :
              arr[i] = value /\ \A j \in 1..(i - 1) : arr[j] # value) - 1
    ELSE 0 - 1

\* addValueIfNotIncluded without the includes test
addValueAlways(arr, value, position) ==
    CASE position = End -> Append(arr, value)
      [] position = Start -> <<value>> \o arr
      [] OTHER -> arr

\* addValueIfNotIncluded that appends whatever the position
addValueAtEnd(arr, value, position) ==
    IF ~Includes(arr, value) /\ position \in {Start, End} THEN Append(arr, value) ELSE arr

addValueIfNotIncluded(arr, value, position) ==
    IF ~Includes(arr, value)
    THEN CASE position = End -> Append(arr, value)
           [] position = Start -> <<value>> \o arr
           [] OTHER -> arr
    ELSE arr

AddArrayChain(arg) == checkArray(startsFor(arg), "Provided array is invalid.")

\* The array chain of replaceWithFlatValues and removeValues
FilledArrayChain(arg) ==
    checkNullOrEmpty(startsFor(arg), "Provided array is null or empty.")

ValuesChain(values) ==
    checkNullOrEmpty(startsFor(values), "Provided values is null or empty.")

addUniqueValues(arr, arg, values, pos) ==
    LET position == IF pos = Undefined THEN End ELSE pos
        items == performActionToArrayOrValue(values)
        added[k \in 0..Len(items)] ==
            IF k = 0 THEN arr
            ELSE addValueIfNotIncluded(added[k - 1], items[k], position)
    IN IF validate(AddArrayChain(arg)) # NoError THEN Raised(arr, AddArrayChain(arg))
       ELSE IF validate(ValuesChain(values)) # NoError
            THEN Raised(arr, ValuesChain(values))
       ELSE Outcome(added[Len(items)], NoError, <<>>, Undefined, 0)

\* replaceWithFlatValues that empties the array before it looks at the values
replaceWithFlatValuesClearFirst(arr, arg, values) ==
    IF validate(FilledArrayChain(arg)) # NoError THEN Raised(arr, FilledArrayChain(arg))
    ELSE IF arg.t # "array" THEN Outcome(arr, TypeError, <<>>, Undefined, 0)
    ELSE IF validate(ValuesChain(values)) # NoError THEN Raised(<<>>, ValuesChain(values))
    ELSE Outcome(<<>> \o performActionToArrayOrValue(values), NoError, <<>>, Undefined, 0)

\* replaceWithFlatValues that pushes a value only when the array lacks it
replaceWithFlatValuesUnique(arr, arg, values) ==
    LET items == performActionToArrayOrValue(values)
        pushed[k \in 0..Len(items)] ==
            IF k = 0 THEN <<>>
            ELSE IF Includes(pushed[k - 1], items[k]) THEN pushed[k - 1]
                 ELSE Append(pushed[k - 1], items[k])
    IN
    IF validate(FilledArrayChain(arg)) # NoError THEN Raised(arr, FilledArrayChain(arg))
    ELSE IF validate(ValuesChain(values)) # NoError THEN Raised(arr, ValuesChain(values))
    ELSE IF arg.t # "array" THEN Outcome(arr, TypeError, <<>>, Undefined, 0)
    ELSE Outcome(pushed[Len(items)], NoError, <<>>, Undefined, 0)

\* arg is the caller's array or, when it is not an array, a value without a
\* writable length and without push: array.length = 0 raises.  The array is
\* emptied and every value pushed in turn.
replaceWithFlatValues(arr, arg, values) ==
    IF validate(FilledArrayChain(arg)) # NoError THEN Raised(arr, FilledArrayChain(arg))
    ELSE IF validate(ValuesChain(values)) # NoError THEN Raised(arr, ValuesChain(values))
    ELSE IF arg.t # "array" THEN Outcome(arr, TypeError, <<>>, Undefined, 0)
    ELSE Outcome(<<>> \o performActionToArrayOrValue(values), NoError, <<>>, Undefined, 0)

removeValueIfIncluded(arr, value) ==
    LET valueToRemove == IndexOf(arr, value)
    IN IF valueToRemove > 0 - 1
       THEN SubSeq(arr, 1, valueToRemove) \o SubSeq(arr, valueToRemove + 2, Len(arr))
       ELSE arr

\* arg is the caller's array or, when it is not an array, a number: a number
\* has no indexOf, so the first value raises
removeValues(arr, arg, values) ==
    LET items == performActionToArrayOrValue(values)
        removed[k \in 0..Len(items)] ==
            IF k = 0 THEN arr ELSE removeValueIfIncluded(removed[k - 1], items[k])
    IN
    IF validate(FilledArrayChain(arg)) # NoError THEN Raised(arr, FilledArrayChain(arg))
    ELSE IF validate(ValuesChain(values)) # NoError THEN Raised(arr, ValuesChain(values))
    ELSE IF arg.t # "array" THEN Outcome(arr, TypeError, <<>>, Undefined, 0)
    ELSE Outcome(removed[Len(items)], NoError, <<>>, Undefined, 0)

\* convertToStrings that converts the numbers only
convertToStringsNumbersOnly(arr) ==
    Outcome([i \in 1..Len(arr) |->
                 IF arr[i].t = "number" THEN Str(StringOf(arr[i])) ELSE arr[i]],
            NoError, <<>>, Undefined, 0)

\* convertToStrings(array) of the caller's array: no validation
convertToStrings(arr) ==
    Outcome([i \in 1..Len(arr) |-> Str(StringOf(arr[i]))], NoError, <<>>, Undefined, 0)

(***************************************************************************)
(* getElements                                                             *)
(***************************************************************************)
\* arr.slice(0, cnt)
SliceStart(arr, cnt) == SubSeq(arr, 1, IF cnt < Len(arr) THEN cnt ELSE Len(arr))

\* slice at the end that copies from the start
SliceEndFromStart(arr, cnt) ==
    SubSeq(arr, 1, IF cnt < Len(arr) THEN cnt ELSE Len(arr))

\* arr.slice(-cnt)
SliceEnd(arr, cnt) ==
    SubSeq(arr, (IF Len(arr) - cnt > 0 THEN Len(arr) - cnt ELSE 0) + 1, Len(arr))

\* What Object.prototype.toString returns when called on POSITION_HANDLERS
ObjectTag ==
    Str(<<"[", "o", "b", "j", "e", "c", "t", " ", "O", "b", "j", "e", "c", "t", "]">>)

\* arg.length of an array or a string
LengthOf(arg) == IF arg.t = "array" THEN Len(arg.e) ELSE Len(arg.s)

GetChain(arg, count, position) ==
    check(check(check(checkPositiveNumber(
                          checkNumber(
                              checkNullOrEmpty(startsFor(count), "Count is required."),
                              "Count is invalid."),
                          "Count must be positive."),
                      arg.t = "array", "Array is invalid."),
                LengthOf(arg) > 0, "Array is empty."),
          Truthy(PositionHandler(position)),
          "Invalid position specified. Use 'start' or 'end'.")

\* arg is the caller's array, a string, null or undefined; the length of null
\* or undefined is read while the chain is being built, and raises
getElements(arr, arg, count, pos) ==
    LET position == IF pos = Undefined THEN Start ELSE pos
    IN IF arg.t \in {"null", "undefined"} THEN Outcome(arr, TypeError, <<>>, Undefined, 0)
       ELSE IF validate(GetChain(arg, count, position)) # NoError
            THEN Raised(arr, GetChain(arg, count, position))
       ELSE Outcome(arr, NoError, <<>>,
                    CASE position = Start -> Arr(SliceStart(arr, count.n))
                      [] position = End -> Arr(SliceEnd(arr, count.n))
                      [] OTHER -> ObjectTag,
                    0)

(***************************************************************************)
(* filterByCondition                                                       *)
(***************************************************************************)
\* The arrow function (item) => typeof item === 'number'
IsNumberFn ==
    [t |-> "function", n |-> 0, s |-> <<"typeof item === 'number'">>, e |-> <<>>]

\* The arrow function () => true
AlwaysFn == [t |-> "function", n |-> 0, s |-> <<"true">>, e |-> <<>>]

\* (item) => !isNaN(Number(item))
IsNumericFn == [t |-> "function", n |-> 0, s |-> <<"!isNaN(Number(item))">>, e |-> <<>>]

\* (item) => typeof item === 'number' && item > threshold
GreaterThanFn(threshold) ==
    [t |-> "function", n |-> threshold,
     s |-> <<"typeof item === 'number' && item > threshold">>, e |-> <<>>]

\* (item) => typeof item === 'number' && item < threshold
SmallerThanFn(threshold) ==
    [t |-> "function", n |-> threshold,
     s |-> <<"typeof item === 'number' && item < threshold">>, e |-> <<>>]

\* (item) => typeof item === 'string' && item.length > length
LongerThanFn(length) ==
    [t |-> "function", n |-> length,
     s |-> <<"typeof item === 'string' && item.length > length">>, e |-> <<>>]

\* (item) => typeof item === 'string' && item.length < length
ShorterThanFn(length) ==
    [t |-> "function", n |-> length,
     s |-> <<"typeof item === 'string' && item.length < length">>, e |-> <<>>]

\* condition(item) for the arrow functions above
CallCondition(condition, item) ==
    CASE condition = IsNumberFn -> item.t = "number"
      [] condition = IsNumericFn -> ~ToNumber(item).nan
      [] condition = GreaterThanFn(condition.n) ->
             item.t = "number" /\ item.n > condition.n
      [] condition = SmallerThanFn(condition.n) ->
             item.t = "number" /\ item.n < condition.n
      [] condition = LongerThanFn(condition.n) ->
             item.t = "string" /\ Len(item.s) > condition.n
      [] condition = ShorterThanFn(condition.n) ->
             item.t = "string" /\ Len(item.s) < condition.n
      [] OTHER -> TRUE

ConditionChain(condition) ==
    checkFunction(checkNullOrEmpty(startsFor(condition), "Condition is required."),
                  "Provided argument is not a function.")

FilterArrayChain(arg) == checkNullOrEmpty(startsFor(arg), "Array is empty.")

\* arg is the caller's array, null or undefined.  Array.prototype.filter
\* raises a TypeError for a callback that is not callable, before any call.
filterByCondition(arr, arg, condition) ==
    IF validate(ConditionChain(condition)) # NoError
    THEN Raised(arr, ConditionChain(condition))
    ELSE IF validate(FilterArrayChain(arg)) # NoError
         THEN Raised(arr, FilterArrayChain(arg))
    ELSE IF condition.t # "function" THEN Outcome(arr, TypeError, <<>>, Undefined, 0)
    ELSE Outcome(arr, NoError, <<>>,
                 Arr(SelectSeq(arr, LAMBDA item : CallCondition(condition, item))), 0)

(***************************************************************************)
(* The filters built on filterByCondition, and calculateStats              *)
(***************************************************************************)
\* filterNumbers that also keeps the strings Number() can read
filterNumbersNumeric(arr, arg) == filterByCondition(arr, arg, IsNumericFn)

filterNumbers(arr, arg) == filterByCondition(arr, arg, IsNumberFn)

filterPositiveNumbers(arr, arg) == filterByCondition(arr, arg, GreaterThanFn(0))

filterNegativeNumbers(arr, arg) == filterByCondition(arr, arg, SmallerThanFn(0))

LengthChain(length) ==
    checkPositiveNumber(
        checkNumber(checkNullOrEmpty(startsFor(length), "Length is required."),
                    "Provided length is invalid."),
        "Provided length must be positive.")

\* filterStringsLongerThan that also keeps the strings of exactly that length
filterStringsNotShorterThan(arr, arg, length) ==
    IF validate(LengthChain(length)) # NoError THEN Raised(arr, LengthChain(length))
    ELSE filterByCondition(arr, arg, LongerThanFn(length.n - 1))

filterStringsLongerThan(arr, arg, length) ==
    IF validate(LengthChain(length)) # NoError THEN Raised(arr, LengthChain(length))
    ELSE filterByCondition(arr, arg, LongerThanFn(length.n))

filterStringsShorterThan(arr, arg, length) ==
    IF validate(LengthChain(length)) # NoError THEN Raised(arr, LengthChain(length))
    ELSE filterByCondition(arr, arg, ShorterThanFn(length.n))

ThresholdChain(threshold) ==
    checkNumber(checkNullOrEmpty(startsFor(threshold), "Number is required."),
                "Provided number is invalid.")

filterNumbersGreaterThan(arr, arg, threshold) ==
    IF validate(ThresholdChain(threshold)) # NoError
    THEN Raised(arr, ThresholdChain(threshold))
    ELSE filterByCondition(arr, arg, GreaterThanFn(threshold.n))

filterNumbersSmallerThan(arr, arg, threshold) ==
    IF validate(ThresholdChain(threshold)) # NoError
    THEN Raised(arr, ThresholdChain(threshold))
    ELSE filterByCondition(arr, arg, SmallerThanFn(threshold.n))

\* The numbers NaN, Infinity and -Infinity, which only results hold
NotANumber == [t |-> "number", n |-> 0, s |-> <<"NaN">>, e |-> <<>>]

Infinity == [t |-> "number", n |-> 0, s |-> <<"Infinity">>, e |-> <<>>]

NegInfinity == [t |-> "number", n |-> 0, s |-> <<"-Infinity">>, e |-> <<>>]

\* A number that is not an integer: p / q in lowest terms, q > 1
Fraction(p, q) == [t |-> "number", n |-> p, s |-> <<"/">>, e |-> <<Num(q)>>]

RECURSIVE Gcd(_, _)
Gcd(a, b) == IF b = 0 THEN a ELSE Gcd(b, a % b)

\* p / q for integers p and q >= 0: 0 / 0 is NaN (the only division by zero
\* calculateStats can make), otherwise the exact quotient
Divide(p, q) ==
    IF q = 0 THEN NotANumber
    ELSE IF p % q = 0 THEN Num(p \div q)
    ELSE LET d == Gcd(IF p < 0 THEN 0 - p ELSE p, q)
         IN Fraction(p \div d, q \div d)

RECURSIVE Reduce(_, _)
\* numbers.reduce((acc, item) => acc + item, acc)
Reduce(numbers, acc) ==
    IF Len(numbers) = 0 THEN acc ELSE Reduce(Tail(numbers), acc + Head(numbers).n)

\* Math.max(...numbers): -Infinity without arguments
MathMax(numbers) ==
    IF Len(numbers) = 0 THEN NegInfinity
    ELSE Num(CHOOSE m \in {numbers[i].n : i \in 1..Len(numbers)} :
                 \A i \in 1..Len(numbers) : numbers[i].n <= m)

\* Math.min(...numbers): Infinity without arguments
MathMin(numbers) ==
    IF Len(numbers) = 0 THEN Infinity
    ELSE Num(CHOOSE m \in {numbers[i].n : i \in 1..Len(numbers)} :
                 \A i \in 1..Len(numbers) : numbers[i].n >= m)

\* The object {max, min, sum, average}
Stats(max, min, sum, average) ==
    [t |-> "object", n |-> 0, s |-> <<>>, e |-> <<max, min, sum, average>>]

\* calculateStats: an error of filterNumbers goes through to the caller
calculateStats(arr, arg) ==
    LET filtered == filterNumbers(arr, arg)
        numbers == filtered.result.e
        sum == Reduce(numbers, 0)
    IN IF filtered.error # NoError THEN filtered
       ELSE Outcome(arr, NoError, <<>>,
                    Stats(MathMax(numbers), MathMin(numbers), Num(sum),
                          Divide(sum, Len(numbers))),
                    0)

(***************************************************************************)
(* The state: the caller's array and the record of the last call           *)
(***************************************************************************)
VARIABLES
    array,      \* the caller-owned array
    before,     \* the array as it was when the last call started
    op,         \* the last operation called
    args,       \* the arguments of the last call
    error,      \* the message of the error it raised, or NoError
    errors,     \* the failures recorded by the chain that raised
    result,     \* the value it returned
    compares,   \* the number of compareValues calls it made
    cmpIn,      \* three values handed to compareValues
    cmpOut      \* the results of comparing them

vars == <<array, before, op, args, error, errors, result, compares, cmpIn, cmpOut>>

\* Elements of the arrays drawn by Init: numbers, numeric strings, words, and
\* a string that starts with a digit without being numeric.
Values ==
    {Num(3), Num(10), Str(<<"3">>), Str(<<"a", "p", "p", "l", "e">>),
     Str(<<"b", "a", "n", "a", "n", "a">>), Str(<<"1", "x">>)}

\* The array of the sorting tests: [10, "apple", 5, "banana", "3", 7]
TestArray ==
    <<Num(10), Str(<<"a", "p", "p", "l", "e">>), Num(5),
      Str(<<"b", "a", "n", "a", "n", "a">>), Str(<<"3">>), Num(7)>>

SeqsUpTo(S, n) == UNION {[1..k -> S] : k \in 0..n}

\* What is passed as the array: the caller's array or something that is not an
\* array
ArrayArgs(arr) == {Arr(arr), Null, Undefined, Str(<<"a">>)}

OrderArgs == {Asc, Desc, Undefined, Num(1)}

NoArgs == [array |-> Undefined, order |-> Undefined, count |-> Undefined,
           position |-> Undefined, values |-> Undefined, condition |-> Undefined,
           length |-> Undefined, threshold |-> Undefined, sink |-> Undefined]

NoCompare == [done |-> FALSE, ab |-> 0, ba |-> 0, bc |-> 0, ac |-> 0, aa |-> 0]

Idle ==
    /\ before = array
    /\ op = "none"
    /\ args = NoArgs
    /\ error = NoError
    /\ errors = <<>>
    /\ result = Undefined
    /\ compares = 0

Init ==
    /\ array \in SeqsUpTo(Values, MaxLen) \cup {TestArray}
    /\ Idle
    /\ cmpIn = <<Undefined, Undefined, Undefined>>
    /\ cmpOut = NoCompare

\* The caller's array and the call record after a call with outcome out
Called(name, a, out) ==
    /\ before' = array
    /\ op' = name
    /\ args' = a
    /\ array' = out.array
    /\ error' = out.error
    /\ errors' = out.errors
    /\ result' = out.result
    /\ compares' = out.compares
    /\ UNCHANGED <<cmpIn, cmpOut>>

\* A call of an operation that hands its work to performActionsWithMessage,
\* under the LOG_MODE a.sink; out is the outcome of the operation with a
\* working logger.  A validation failure is raised before anything is logged.
LoggedCall(name, a, out) ==
    Called(name, a,
           IF out.error \in {NoError, TypeError}
           THEN performActionsWithMessage(a.sink, array, out)
           ELSE out)

BubbleSort(arg, ord) ==
    \E out \in {bubbleSort(array, arg, ord)} :
        Called("bubbleSort", [NoArgs EXCEPT !.array = arg, !.order = ord], out)

QuickSort(arg, ord) ==
    \E out \in {quickSort(array, arg, ord)} :
        Called("quickSort", [NoArgs EXCEPT !.array = arg, !.order = ord], out)

RemoveByCount(arg, count, pos) ==
    \E out \in {removeByCount(array, arg, count, pos)} :
        Called("removeByCount",
               [NoArgs EXCEPT !.array = arg, !.count = count, !.position = pos], out)

AddUniqueValues(arg, values, pos) ==
    \E out \in {addUniqueValues(array, arg, values, pos)} :
        Called("addUniqueValues",
               [NoArgs EXCEPT !.array = arg, !.values = values, !.position = pos], out)

ReplaceWithFlatValues(arg, values) ==
    \E out \in {replaceWithFlatValues(array, arg, values)} :
        Called("replaceWithFlatValues",
               [NoArgs EXCEPT !.array = arg, !.values = values], out)

RemoveValues(arg, values) ==
    \E out \in {removeValues(array, arg, values)} :
        Called("removeValues", [NoArgs EXCEPT !.array = arg, !.values = values], out)

ConvertToStrings ==
    \E out \in {convertToStrings(array)} :
        Called("convertToStrings", [NoArgs EXCEPT !.array = Arr(array)], out)

GetElements(arg, count, pos) ==
    \E out \in {getElements(array, arg, count, pos)} :
        Called("getElements",
               [NoArgs EXCEPT !.array = arg, !.count = count, !.position = pos], out)

FilterByCondition(arg, condition) ==
    \E out \in {filterByCondition(array, arg, condition)} :
        Called("filterByCondition",
               [NoArgs EXCEPT !.array = arg, !.condition = condition], out)

FilterNumbers(arg) ==
    \E out \in {filterNumbers(array, arg)} :
        Called("filterNumbers", [NoArgs EXCEPT !.array = arg], out)

FilterPositiveNumbers(arg) ==
    \E out \in {filterPositiveNumbers(array, arg)} :
        Called("filterPositiveNumbers", [NoArgs EXCEPT !.array = arg], out)

FilterNegativeNumbers(arg) ==
    \E out \in {filterNegativeNumbers(array, arg)} :
        Called("filterNegativeNumbers", [NoArgs EXCEPT !.array = arg], out)

FilterNumbersGreaterThan(arg, threshold) ==
    \E out \in {filterNumbersGreaterThan(array, arg, threshold)} :
        Called("filterNumbersGreaterThan",
               [NoArgs EXCEPT !.array = arg, !.threshold = threshold], out)

FilterNumbersSmallerThan(arg, threshold) ==
    \E out \in {filterNumbersSmallerThan(array, arg, threshold)} :
        Called("filterNumbersSmallerThan",
               [NoArgs EXCEPT !.array = arg, !.threshold = threshold], out)

FilterStringsLongerThan(arg, length) ==
    \E out \in {filterStringsLongerThan(array, arg, length)} :
        Called("filterStringsLongerThan",
               [NoArgs EXCEPT !.array = arg, !.length = length], out)

FilterStringsShorterThan(arg, length) ==
    \E out \in {filterStringsShorterThan(array, arg, length)} :
        Called("filterStringsShorterThan",
               [NoArgs EXCEPT !.array = arg, !.length = length], out)

CalculateStats(arg) ==
    \E out \in {calculateStats(array, arg)} :
        Called("calculateStats", [NoArgs EXCEPT !.array = arg], out)

\* compareValues applied to the pairs of the three values drawn by InitCompare
CompareValues ==
    /\ ~cmpOut.done
    /\ cmpOut' = [done |-> TRUE,
                  ab |-> compareValues(cmpIn[1], cmpIn[2]),
                  ba |-> compareValues(cmpIn[2], cmpIn[1]),
                  bc |-> compareValues(cmpIn[2], cmpIn[3]),
                  ac |-> compareValues(cmpIn[1], cmpIn[3]),
                  aa |-> compareValues(cmpIn[1], cmpIn[1])]
    /\ UNCHANGED <<array, before, op, args, error, errors, result, compares, cmpIn>>

Next ==
    \/ \E arg \in ArrayArgs(array), ord \in OrderArgs : BubbleSort(arg, ord)
    \/ \E arg \in ArrayArgs(array), ord \in OrderArgs : QuickSort(arg, ord)

\* The sorting operations on the caller's array
Spec == Init /\ [][Next]_vars

\* Values handed to compareValues: those of the arrays, more numbers and
\* numeric strings, the empty string
CompareDomain ==
    Values \cup {Num(5), Num(0 - 2), Str(<<"1", "0">>), Str(<<"9">>), Str(<<>>)}

InitCompare ==
    /\ array = <<>>
    /\ Idle
    /\ cmpIn \in CompareDomain \X CompareDomain \X CompareDomain
    /\ cmpOut = NoCompare

NextCompare == CompareValues

\* compareValues as a function of its arguments
SpecCompare == InitCompare /\ [][NextCompare]_vars

\* Elements of the arrays that removeByCount shortens
CountValues == {Num(3), Str(<<"3">>), Str(<<"a", "p", "p", "l", "e">>)}

CountArgs ==
    {Undefined, Null, Str(<<"a">>), Str(<<"2">>), Str(<<" ">>),
     Num(0), Num(0 - 1), Num(1), Num(2), Num(5)}

PositionArgs == {Undefined, Start, End, Str(<<"a", "b", "c">>), InheritedKey}

InitCount ==
    /\ array \in SeqsUpTo(CountValues, MaxLen)
    /\ Idle
    /\ cmpIn = <<Undefined, Undefined, Undefined>>
    /\ cmpOut = NoCompare

NextCount ==
    \E arg \in {Arr(array), Undefined}, count \in CountArgs, pos \in PositionArgs :
        RemoveByCount(arg, count, pos)

\* removeByCount on the caller's array
SpecCount == InitCount /\ [][NextCount]_vars

\* Elements of the arrays the editing operations work on
EditValues == {Num(0), Str(<<"0">>), Bool(FALSE)}

\* Lists of up to MaxValues values, repeats included, and the empty list
ValueLists == {Arr(s) : s \in SeqsUpTo({Num(0), Str(<<"0">>)}, MaxValues)}

\* What is passed as values: a single value, a list, or nothing usable
ValuesArgs ==
    {Num(0), Bool(FALSE), Null, Undefined, Str(<<" ">>), Str(<<>>)} \cup ValueLists

EditPositions == {Undefined, Start, End, Str(<<"a", "b", "c">>)}

EditCounts == {Num(0), Num(1), Num(2)}

InitEdit ==
    /\ array \in SeqsUpTo(EditValues, MaxLen)
    /\ Idle
    /\ cmpIn = <<Undefined, Undefined, Undefined>>
    /\ cmpOut = NoCompare

\* The caller passes its array; addUniqueValues is called while the array it
\* leaves is no longer than MaxLen
NextEdit ==
    \/ \E values \in ValuesArgs, pos \in EditPositions :
           /\ Len(addUniqueValues(array, Arr(array), values, pos).array) <= MaxLen
           /\ AddUniqueValues(Arr(array), values, pos)
    \/ \E values \in ValuesArgs : ReplaceWithFlatValues(Arr(array), values)
    \/ \E values \in ValuesArgs : RemoveValues(Arr(array), values)
    \/ ConvertToStrings
    \/ \E count \in EditCounts, pos \in EditPositions :
           RemoveByCount(Arr(array), count, pos)

\* The operations that edit the caller's array, in any order
SpecEdit == InitEdit /\ [][NextEdit]_vars

\* What is passed as the array to the editing operations: the caller's array,
\* null, or a number
EditArrayArgs(arr) == {Arr(arr), Null, Num(7)}

ConditionArgs ==
    {IsNumberFn, AlwaysFn, Undefined, Null, Num(123), Num(0), Str(<<"a", "b", "c">>),
     Str(<<" ">>), FunctionWord, Arr(<<>>), Arr(<<Num(3)>>)}

NextGet ==
    \E arg \in ArrayArgs(array), count \in CountArgs, pos \in PositionArgs :
        GetElements(arg, count, pos)

\* getElements on the caller's array
SpecGet == InitCount /\ [][NextGet]_vars

NextFilter ==
    \E arg \in {Arr(array), Null, Undefined}, condition \in ConditionArgs :
        FilterByCondition(arg, condition)

\* filterByCondition on the caller's array
SpecFilter == InitCount /\ [][NextFilter]_vars

\* Elements of the arrays that are filtered and aggregated
QueryValues ==
    {Num(0 - 2), Num(0), Num(3), Str(<<"3">>), Str(<<"a", "p", "p", "l", "e">>)}

ThresholdArgs == {Undefined, Str(<<"3">>), Num(0 - 2), Num(0), Num(3)}

LengthArgs == {Undefined, Str(<<"1">>), Num(0), Num(1), Num(5)}

\* The array argument: the caller's array, or null
QueryArrayArgs == {Arr(array), Null}

InitQuery ==
    /\ array \in SeqsUpTo(QueryValues, MaxLen)
    /\ Idle
    /\ cmpIn = <<Undefined, Undefined, Undefined>>
    /\ cmpOut = NoCompare

NextQuery ==
    \/ \E arg \in QueryArrayArgs, condition \in ConditionArgs :
           FilterByCondition(arg, condition)
    \/ \E arg \in QueryArrayArgs : FilterNumbers(arg)
    \/ \E arg \in QueryArrayArgs : FilterPositiveNumbers(arg)
    \/ \E arg \in QueryArrayArgs : FilterNegativeNumbers(arg)
    \/ \E arg \in QueryArrayArgs, threshold \in ThresholdArgs :
           FilterNumbersGreaterThan(arg, threshold)
    \/ \E arg \in QueryArrayArgs, threshold \in ThresholdArgs :
           FilterNumbersSmallerThan(arg, threshold)
    \/ \E arg \in QueryArrayArgs, length \in LengthArgs :
           FilterStringsLongerThan(arg, length)
    \/ \E arg \in QueryArrayArgs, length \in LengthArgs :
           FilterStringsShorterThan(arg, length)
    \/ \E arg \in QueryArrayArgs : CalculateStats(arg)

\* The filters and calculateStats on the caller's array
SpecQuery == InitQuery /\ [][NextQuery]_vars

\* No operation has been called yet
FirstCall == op = "none"

\* One call of an operation with every kind of argument
NextArgs ==
    \/ \E arg \in EditArrayArgs(array), values \in ValuesArgs, pos \in EditPositions :
           FirstCall /\ AddUniqueValues(arg, values, pos)
    \/ \E arg \in EditArrayArgs(array), values \in ValuesArgs :
           FirstCall /\ ReplaceWithFlatValues(arg, values)
    \/ \E arg \in EditArrayArgs(array), values \in ValuesArgs :
           FirstCall /\ RemoveValues(arg, values)
    \/ \E arg \in EditArrayArgs(array), count \in CountArgs, pos \in PositionArgs :
           FirstCall /\ RemoveByCount(arg, count, pos)
    \/ \E arg \in ArrayArgs(array), count \in CountArgs, pos \in PositionArgs :
           FirstCall /\ GetElements(arg, count, pos)
    \/ \E arg \in {Arr(array), Null, Undefined}, condition \in ConditionArgs :
           FirstCall /\ FilterByCondition(arg, condition)
    \/ \E arg \in ArrayArgs(array), ord \in OrderArgs : FirstCall /\ BubbleSort(arg, ord)
    \/ \E arg \in ArrayArgs(array), ord \in OrderArgs : FirstCall /\ QuickSort(arg, ord)

\* Every operation called once on the caller's array
SpecArgs == InitEdit /\ [][NextArgs]_vars

\* One call of an operation on the caller's array under any value of the
\* environment variable LOG_MODE.  getElements and the filters log nothing.
NextLog ==
    \E env \in OUTPUT_MODES \cup {Undefined, Str(<<"o", "f", "f">>)} :
        \/ \E values \in {Num(3), Arr(<<Str(<<"3">>), Num(10)>>), Null},
              pos \in {Undefined, Start} :
               /\ FirstCall
               /\ LoggedCall("addUniqueValues",
                             [NoArgs EXCEPT !.array = Arr(array), !.values = values,
                                            !.position = pos, !.sink = env],
                             addUniqueValues(array, Arr(array), values, pos))
        \/ \E values \in {Num(10), Arr(<<Num(3), Num(3)>>), Null} :
               /\ FirstCall
               /\ LoggedCall("replaceWithFlatValues",
                             [NoArgs EXCEPT !.array = Arr(array), !.values = values,
                                            !.sink = env],
                             replaceWithFlatValues(array, Arr(array), values))
        \/ \E values \in {Num(3), Arr(<<Str(<<"3">>), Num(3)>>), Null} :
               /\ FirstCall
               /\ LoggedCall("removeValues",
                             [NoArgs EXCEPT !.array = Arr(array), !.values = values,
                                            !.sink = env],
                             removeValues(array, Arr(array), values))
        \/ \E count \in {Num(1), Num(2), Num(0)}, pos \in {Undefined, End} :
               /\ FirstCall
               /\ LoggedCall("removeByCount",
                             [NoArgs EXCEPT !.array = Arr(array), !.count = count,
                                            !.position = pos, !.sink = env],
                             removeByCount(array, Arr(array), count, pos))
        \/ /\ FirstCall
           /\ LoggedCall("convertToStrings",
                         [NoArgs EXCEPT !.array = Arr(array), !.sink = env],
                         convertToStrings(array))
        \/ \E ord \in {Asc, Desc, Num(1)} :
               /\ FirstCall
               /\ LoggedCall("bubbleSort",
                             [NoArgs EXCEPT !.array = Arr(array), !.order = ord,
                                            !.sink = env],
                             bubbleSort(array, Arr(array), ord))
        \/ \E ord \in {Asc, Desc, Num(1)} :
               /\ FirstCall
               /\ LoggedCall("quickSort",
                             [NoArgs EXCEPT !.array = Arr(array), !.order = ord,
                                            !.sink = env],
                             quickSort(array, Arr(array), ord))
        \/ \E count \in {Num(1), Num(0)} :
               /\ FirstCall
               /\ Called("getElements",
                         [NoArgs EXCEPT !.array = Arr(array), !.count = count,
                                        !.sink = env],
                         getElements(array, Arr(array), count, Undefined))
        \/ /\ FirstCall
           /\ Called("filterNumbers",
                     [NoArgs EXCEPT !.array = Arr(array), !.sink = env],
                     filterNumbers(array, Arr(array)))

\* Every operation called once under every logging configuration
SpecLog == InitCount /\ [][NextLog]_vars

\* Elements that compare equal without being the same (3, '3', '03'), next to
\* a string that is not numeric
StableValues == {Num(3), Str(<<"3">>), Str(<<"0", "3">>), Str(<<"1", "x">>)}

InitStable ==
    /\ array \in SeqsUpTo(StableValues, MaxLen)
    /\ Idle
    /\ cmpIn = <<Undefined, Undefined, Undefined>>
    /\ cmpOut = NoCompare

NextStable ==
    \/ \E ord \in {Asc, Desc} : BubbleSort(Arr(array), ord)
    \/ \E ord \in {Asc, Desc} : QuickSort(Arr(array), ord)

\* The sorts on arrays that hold elements comparing equal
SpecStable == InitStable /\ [][NextStable]_vars

(***************************************************************************)
(* Properties                                                              *)
(***************************************************************************)
IsSort == op \in {"bubbleSort", "quickSort"}

Ok == error = NoError

\* The order the last sort ran with: the parameter after its default
EffOrder == IF args.order = Undefined THEN Asc ELSE args.order

Sign(x) == IF x < 0 THEN 0 - 1 ELSE IF x > 0 THEN 1 ELSE 0

Reverse(s) == [i \in 1..Len(s) |-> s[Len(s) + 1 - i]]

Numeric(v) == ~ToNumber(v).nan

Apple == Str(<<"a", "p", "p", "l", "e">>)

Banana == Str(<<"b", "a", "n", "a", "n", "a">>)

\* C1: bubbleSort(A, order) and quickSort(copy of A, order) leave
\* element-for-element identical sequences, for every A and either order.
C1_SortsAgree ==
    /\ (op = "bubbleSort" /\ Ok) =>
           array = quickSort(before, Arr(before), args.order).array
    /\ (op = "quickSort" /\ Ok) =>
           array = bubbleSort(before, Arr(before), args.order).array

\* C2: compareValues is a total preorder: compare(a, a) = 0, the sign of
\* compare(a, b) is the opposite of the sign of compare(b, a), and
\* compare(a, b) <= 0 with compare(b, c) <= 0 gives compare(a, c) <= 0.
C2_TotalOrder ==
    cmpOut.done =>
        /\ cmpOut.aa = 0
        /\ Sign(cmpOut.ab) = 0 - Sign(cmpOut.ba)
        /\ (cmpOut.ab <= 0 /\ cmpOut.bc <= 0) => cmpOut.ac <= 0

\* C3: after either sort every adjacent pair of the sequence is in order under
\* compareValues: <= 0 after 'asc', >= 0 after 'desc'.
C3_AdjacentOrdered ==
    (IsSort /\ Ok) =>
        \A i \in 1..(Len(array) - 1) :
            IF EffOrder = Asc
            THEN compareValues(array[i], array[i + 1]) <= 0
            ELSE compareValues(array[i], array[i + 1]) >= 0

\* C4: an ascending sort puts the numeric-coercible elements first, in
\* non-decreasing numeric order, and the non-numeric strings after them in
\* lexicographic order; a descending sort gives the mirror arrangement; the
\* array of the sorting tests comes out as the tests expect.
C4_NumbersBeforeWords ==
    (IsSort /\ Ok) =>
        /\ \A i, j \in 1..Len(array) :
               i < j =>
                   LET x == IF EffOrder = Asc THEN array[i] ELSE array[j]
                       y == IF EffOrder = Asc THEN array[j] ELSE array[i]
                   IN /\ ~(~Numeric(x) /\ Numeric(y))
                      /\ (Numeric(x) /\ Numeric(y)) => ToNumber(x).n <= ToNumber(y).n
                      /\ (~Numeric(x) /\ ~Numeric(y)) => localeCompare(x.s, y.s) <= 0
        /\ (before = TestArray /\ EffOrder = Asc) =>
               array = <<Str(<<"3">>), Num(5), Num(7), Num(10), Apple, Banana>>
        /\ (before = TestArray /\ EffOrder = Desc) =>
               array = <<Banana, Apple, Num(10), Num(7), Num(5), Str(<<"3">>)>>

\* compareValues orders the elements of s strictly and consistently: no two
\* elements at different places compare equal, the two argument orders give
\* opposite signs, and "before" is transitive.
StrictTotalOrderOn(s) ==
    /\ \A i, j \in 1..Len(s) :
           i # j => /\ compareValues(s[i], s[j]) # 0
                    /\ Sign(compareValues(s[i], s[j])) = 0 - Sign(compareValues(s[j], s[i]))
    /\ \A i, j, k \in 1..Len(s) :
           (compareValues(s[i], s[j]) < 0 /\ compareValues(s[j], s[k]) < 0)
               => compareValues(s[i], s[k]) < 0

\* The last call sorted the array ascending and this step sorts the result
\* descending with the same algorithm.
AscThenDesc ==
    /\ IsSort /\ Ok /\ EffOrder = Asc
    /\ op' = op /\ args'.array.t = "array" /\ args'.order = Desc /\ error' = NoError

C6_Idempotent ==
    [][(/\ IsSort /\ Ok
        /\ op' = op /\ args'.array.t = "array" /\ error' = NoError
        /\ (IF args'.order = Undefined THEN Asc ELSE args'.order) = EffOrder)
       => array' = array]_vars

\* C7: both sorts validate before any comparison: a non-array raises
\* 'Provided array is invalid.', an empty array 'Provided array is null or
\* empty.', otherwise an order other than 'asc' and 'desc' raises "Order must
\* be 'asc' or 'desc'."; the array check comes first, and whenever an error is
\* raised the sequence is unchanged and compareValues was not called.
C7_ValidateBeforeCompare ==
    IsSort =>
        /\ args.array.t # "array" => error = "Provided array is invalid."
        /\ (args.array.t = "array" /\ Len(args.array.e) = 0)
               => error = "Provided array is null or empty."
        /\ (/\ args.array.t = "array" /\ Len(args.array.e) > 0
            /\ args.order \notin {Asc, Desc, Undefined})
               => error = "Order must be 'asc' or 'desc'."
        /\ ~Ok => (array = before /\ compares = 0)

\* A sort called with a non-array and a bad order on top of a caller array of
\* several elements: the array error wins and nothing was compared.
C7_Witness ==
    /\ IsSort
    /\ args.array.t # "array" /\ args.order = Num(1)
    /\ error = "Provided array is invalid."
    /\ Len(before) >= 2 /\ array = before /\ compares = 0

\* C8: when both arguments coerce to numbers compareValues returns the numeric
\* difference Number(a) - Number(b) (numeric strings compare as numbers);
\* otherwise, when both are strings, it returns their lexicographic comparison.
C8_NumericThenText ==
    cmpOut.done =>
        LET a == cmpIn[1]
            b == cmpIn[2]
        IN /\ (Numeric(a) /\ Numeric(b)) => cmpOut.ab = ToNumber(a).n - ToNumber(b).n
           /\ (~(Numeric(a) /\ Numeric(b)) /\ a.t = "string" /\ b.t = "string")
                  => cmpOut.ab = localeCompare(a.s, b.s)
           /\ (a = Num(3) /\ b = Str(<<"3">>)) => cmpOut.ab = 0
           /\ (a = Str(<<"3">>) /\ b = Num(5)) => cmpOut.ab < 0
           /\ (a = Str(<<"1", "0">>) /\ b = Str(<<"9">>)) => cmpOut.ab > 0
           /\ (a = Apple /\ b = Banana) => cmpOut.ab < 0

\* '10' has been compared with '9' as numbers.
C8_Witness ==
    /\ cmpOut.done
    /\ cmpIn[1] = Str(<<"1", "0">>) /\ cmpIn[2] = Str(<<"9">>)
    /\ cmpOut.ab = 1

\* C9: when a and b are neither both numeric-coercible nor both strings,
\* compareValues returns the lexicographic comparison of the string form of a
\* against the string form of b, in either argument order.
C9_FallbackComparesStringForms ==
    cmpOut.done =>
        LET a == cmpIn[1]
            b == cmpIn[2]
        IN (~(Numeric(a) /\ Numeric(b)) /\ ~(a.t = "string" /\ b.t = "string"))
               => cmpOut.ab = localeCompare(StringOf(a), StringOf(b))

\* The checks of the count chain of removeByCount that fail for count c and
\* position p (after the default), as messages in chain order.
CountFailures(c, p) ==
    LET missing == \/ c.t \in {"null", "undefined"}
                   \/ (c.t = "string" /\ \A i \in 1..Len(c.s) : c.s[i] = " ")
        notNumber == c.t # "number"
        notPositive == ~(Numeric(c) /\ ToNumber(c).n >= 1)
        badPosition == PositionHandler(p) = Undefined
    IN (IF missing THEN <<"Count is required.">> ELSE <<>>)
       \o (IF notNumber THEN <<"Provided count invalid.">> ELSE <<>>)
       \o (IF notPositive THEN <<"Provided count must be positive.">> ELSE <<>>)
       \o (IF badPosition
           THEN <<"Invalid position specified. Use 'start' or 'end'.">> ELSE <<>>)

\* C10: a chain evaluates every check and records one failure per failed
\* check, in chain order; validate raises exactly when a check failed, with the
\* message of the first failure, and does nothing otherwise.  For the count of
\* removeByCount: required before wrong type before not positive before
\* invalid position.
C10_FirstFailureOfAll ==
    (/\ op = "removeByCount"
     /\ args.array.t = "array" /\ Len(args.array.e) > 0) =>
        LET failures == CountFailures(args.count,
                                      IF args.position = Undefined
                                      THEN Start ELSE args.position)
        IN /\ errors = failures
           /\ Ok <=> failures = <<>>
           /\ ~Ok => error = failures[1]
           /\ \A i, j \in 1..Len(errors) :
                  i < j => \/ errors[i] = "Count is required."
                           \/ errors[j] = "Invalid position specified. Use 'start' or 'end'."
                           \/ /\ errors[i] = "Provided count invalid."
                              /\ errors[j] = "Provided count must be positive."

\* removeByCount was called without a count and with a bad position: all four
\* checks failed and the first message was raised.
C10_Witness ==
    /\ op = "removeByCount"
    /\ args.count = Undefined
    /\ Len(errors) = 4
    /\ error = "Count is required."
    /\ array = before /\ Len(array) > 0

\* The failure message was recorded by the chain that raised
Recorded(message) == \E i \in 1..Len(errors) : errors[i] = message

Callable(v) == v.t = "function"

\* The value fails checkNullOrEmpty: null, undefined, an empty array or a
\* string of blanks
Missing(v) ==
    \/ v.t \in {"null", "undefined"}
    \/ (v.t = "array" /\ Len(v.e) = 0)
    \/ (v.t = "string" /\ \A i \in 1..Len(v.s) : v.s[i] = " ")

\* C11: checkFunction records a failure exactly when the value is not
\* callable, and filterByCondition raises 'Provided argument is not a
\* function.' for every condition that is present (a number, a string, an
\* array) and not callable, without ever reaching the call of filter.
C11_NotCallableRejected ==
    op = "filterByCondition" =>
        /\ ~Callable(args.condition) <=> Recorded("Provided argument is not a function.")
        /\ (~Callable(args.condition) /\ ~Missing(args.condition))
               => error = "Provided argument is not a function."
        /\ ~Callable(args.condition) => error # TypeError

NoDuplicates(s) == \A i, j \in 1..Len(s) : i # j => s[i] # s[j]

\* The values an operation works through: the items of a list, or the value
Items(values) == IF values.t = "array" THEN values.e ELSE <<values>>

Member(s, v) == \E i \in 1..Len(s) : s[i] = v

\* C12: addUniqueValues never introduces a duplicate, whatever the values
\* (one value, a list, a list with repeats) and the position; when every value
\* is already present the array is left exactly as it was; and an array
\* without duplicates stays so under addUniqueValues, removeValues and
\* removeByCount in any order.
C12_NoDuplicateAdded ==
    /\ op \in {"addUniqueValues", "removeValues", "removeByCount"} =>
           (NoDuplicates(before) => NoDuplicates(array))
    /\ (/\ op = "addUniqueValues"
        /\ \A i \in 1..Len(Items(args.values)) : Member(before, Items(args.values)[i]))
           => array = before

\* A list that repeats a value the array lacks was added to an array without
\* duplicates: the value went in once.
C12_Witness ==
    /\ op = "addUniqueValues" /\ Ok
    /\ args.values.t = "array" /\ Len(args.values.e) = 2
    /\ args.values.e[1] = args.values.e[2]
    /\ ~Member(before, args.values.e[1])
    /\ Len(before) > 0 /\ NoDuplicates(before)
    /\ array = Append(before, args.values.e[1])

\* The last call raised a failure of its Validation chain
ValidationFailed == error \notin {NoError, TypeError, RangeError}

\* C13: whenever an operation raises a validation error (missing value, wrong
\* type, not positive, empty collection, invalid position or order, not a
\* function) the caller's array is exactly as it was before the call.
C13_FailureLeavesArray ==
    (op # "none" /\ ValidationFailed) =>
        /\ array = before
        /\ Len(errors) > 0 /\ error = errors[1]
        /\ result = Undefined

\* replaceWithFlatValues was called on a filled array without values: it raised
\* and the array kept its elements.
C13_Witness ==
    /\ op = "replaceWithFlatValues"
    /\ args.array.t = "array" /\ Len(before) > 0
    /\ error = "Provided values is null or empty."
    /\ array = before

TakesPosition == op \in {"addUniqueValues", "removeByCount", "getElements"}

\* C14: addUniqueValues, removeByCount and getElements reject every position
\* other than 'start' and 'end' with a validation failure, and leave the array
\* as it was.
C14_PositionChecked ==
    (TakesPosition /\ args.position \notin {Undefined, Start, End}) =>
        ValidationFailed /\ array = before

\* C15: after removeValues returns normally, none of the values it was given
\* is an element of the array, whatever the array held (duplicates included).
C15_RemovedValuesGone ==
    (op = "removeValues" /\ Ok) =>
        \A i \in 1..Len(Items(args.values)) : ~Member(array, Items(args.values)[i])

\* The array argument passed the check made before the values are looked at
ArrayArgPassed ==
    IF op = "addUniqueValues" THEN args.array.t = "array" ELSE ~Missing(args.array)

\* C16: once the array argument has passed its check, addUniqueValues,
\* removeValues and replaceWithFlatValues raise 'Provided values is null or
\* empty.' exactly when values is null, undefined, an empty array or a string
\* of blanks; any other values (0 and false included) pass validation.
C16_ValuesRequired ==
    (/\ op \in {"addUniqueValues", "removeValues", "replaceWithFlatValues"}
     /\ ArrayArgPassed) =>
        /\ error = "Provided values is null or empty." <=> Missing(args.values)
        /\ ~Missing(args.values) => ~ValidationFailed

\* false was given as the value to add to the caller's array: it was accepted
\* and appended.
C16_Witness ==
    /\ op = "addUniqueValues" /\ Ok
    /\ args.values = Bool(FALSE)
    /\ ~Member(before, Bool(FALSE))
    /\ array = Append(before, Bool(FALSE))

Min(a, b) == IF a < b THEN a ELSE b

\* The position the last call worked at, given the default it has when the
\* argument is left out
EffPosition(default) == IF args.position = Undefined THEN default ELSE args.position

\* s without its first k elements
DropFirst(s, k) == [i \in 1..(Len(s) - k) |-> s[i + k]]

\* s without its last k elements
DropLast(s, k) == [i \in 1..(Len(s) - k) |-> s[i]]

\* C17: removeByCount on a non-empty array with a count n >= 1 removes exactly
\* the first min(n, |A|) elements at 'start' and the last min(n, |A|) at
\* 'end', keeps the others in order, and does not raise when n > |A|.
C17_RemovesUpToCount ==
    (/\ op = "removeByCount"
     /\ args.array.t = "array" /\ Len(before) > 0
     /\ args.count.t = "number" /\ args.count.n >= 1
     /\ EffPosition(Start) \in {Start, End}) =>
        LET k == Min(args.count.n, Len(before))
        IN /\ Ok
           /\ EffPosition(Start) = Start => array = DropFirst(before, k)
           /\ EffPosition(Start) = End => array = DropLast(before, k)

\* More elements than the array held were removed from its end: no error, and
\* the array is empty.
C17_Witness ==
    /\ op = "removeByCount" /\ Ok
    /\ args.position = End
    /\ Len(before) = 2 /\ args.count.n > Len(before)
    /\ array = <<>>

\* C18: addUniqueValues with k distinct values none of which is in the array:
\* at 'end' (the default) the last k elements afterwards are exactly the
\* values, at 'start' the first k are; the elements already there keep their
\* order, and the array is k longer.
C18_AddedAtPosition ==
    (/\ op = "addUniqueValues" /\ Ok
     /\ EffPosition(End) \in {Start, End}
     /\ NoDuplicates(Items(args.values))
     /\ \A i \in 1..Len(Items(args.values)) : ~Member(before, Items(args.values)[i])) =>
        LET V == Items(args.values)
            k == Len(V)
            n == Len(before)
        IN /\ Len(array) = n + k
           /\ EffPosition(End) = End =>
                  /\ SubSeq(array, 1, n) = before
                  /\ {array[i] : i \in (n + 1)..(n + k)} = {V[i] : i \in 1..k}
           /\ EffPosition(End) = Start =>
                  /\ SubSeq(array, k + 1, n + k) = before
                  /\ {array[i] : i \in 1..k} = {V[i] : i \in 1..k}

\* Two new values were added at the start of a filled array: they are its
\* first two elements, the last of the list first.
C18_Witness ==
    /\ op = "addUniqueValues" /\ Ok
    /\ args.position = Start
    /\ args.values.t = "array" /\ Len(args.values.e) = 2
    /\ Len(before) > 0
    /\ ~Member(before, args.values.e[1]) /\ ~Member(before, args.values.e[2])
    /\ args.values.e[1] # args.values.e[2]
    /\ array = <<args.values.e[2], args.values.e[1]>> \o before

C20_NullWhenCountExceeds ==
    (/\ op = "getElements" /\ Ok
     /\ args.array.t = "array"
     /\ args.count.n > Len(before)) =>
        result = Null

IsFilter ==
    op \in {"filterByCondition", "filterNumbers", "filterNumbersGreaterThan",
            "filterNumbersSmallerThan", "filterPositiveNumbers",
            "filterNegativeNumbers", "filterStringsLongerThan",
            "filterStringsShorterThan"}

\* Whether the last filter called is to keep the element v
Keeps(v) ==
    CASE op = "filterNumbers" -> v.t = "number"
      [] op = "filterPositiveNumbers" -> v.t = "number" /\ v.n > 0
      [] op = "filterNegativeNumbers" -> v.t = "number" /\ v.n < 0
      [] op = "filterNumbersGreaterThan" -> v.t = "number" /\ v.n > args.threshold.n
      [] op = "filterNumbersSmallerThan" -> v.t = "number" /\ v.n < args.threshold.n
      [] op = "filterStringsLongerThan" -> v.t = "string" /\ Len(v.s) > args.length.n
      [] op = "filterStringsShorterThan" -> v.t = "string" /\ Len(v.s) < args.length.n
      [] op = "filterByCondition" /\ args.condition = IsNumberFn -> v.t = "number"
      [] OTHER -> TRUE

\* sub is s with some elements left out: the elements of s kept by keep, in
\* the order and number they have in s
RECURSIVE KeptInOrder(_, _)
KeptInOrder(sub, s) ==
    IF Len(s) = 0 THEN Len(sub) = 0
    ELSE IF Keeps(Head(s))
         THEN Len(sub) > 0 /\ Head(sub) = Head(s) /\ KeptInOrder(Tail(sub), Tail(s))
         ELSE KeptInOrder(sub, Tail(s))

RECURSIVE NumbersOf(_)
NumbersOf(s) ==
    IF Len(s) = 0 THEN <<>>
    ELSE IF Head(s).t = "number" THEN <<Head(s).n>> \o NumbersOf(Tail(s))
         ELSE NumbersOf(Tail(s))

RECURSIVE SumOf(_)
SumOf(ns) == IF Len(ns) = 0 THEN 0 ELSE Head(ns) + SumOf(Tail(ns))

\* The average as a pair numerator, denominator (denominator positive)
AverageOf(stats) ==
    IF stats.e[4].s = <<"/">> THEN <<stats.e[4].n, stats.e[4].e[1].n>>
    ELSE <<stats.e[4].n, 1>>

\* C22: calculateStats on an array with a number-typed element returns the
\* minimum, maximum and sum of exactly the number-typed elements (strings,
\* numeric or not, are ignored), an average with average * count = sum and
\* min <= average <= max, and leaves the array as it was.
C22_StatsOverNumbers ==
    (op = "calculateStats" /\ Ok /\ Len(NumbersOf(before)) > 0) =>
        LET ns == NumbersOf(before)
            max == result.e[1]
            min == result.e[2]
            sum == result.e[3]
            avg == AverageOf(result)
        IN /\ result.t = "object"
           /\ \E i \in 1..Len(ns) : Num(ns[i]) = max
           /\ \E i \in 1..Len(ns) : Num(ns[i]) = min
           /\ \A i \in 1..Len(ns) : min.n <= ns[i] /\ ns[i] <= max.n
           /\ sum = Num(SumOf(ns))
           /\ result.e[4].t = "number" /\ result.e[4].s \in {<<>>, <<"/">>}
           /\ avg[2] > 0
           /\ avg[1] * Len(ns) = sum.n * avg[2]
           /\ min.n * avg[2] <= avg[1] /\ avg[1] <= max.n * avg[2]
           /\ array = before

\* The statistics of [-2, '3', 3] were computed: the numeric string is
\* ignored, so the sum is 1 and the average 1/2, not 4 and 4/3.
C22_Witness ==
    /\ op = "calculateStats" /\ Ok
    /\ before = <<Num(0 - 2), Str(<<"3">>), Num(3)>>
    /\ result = Stats(Num(3), Num(0 - 2), Num(1), Fraction(1, 2))
    /\ array = before

\* C23: calculateStats on an array without a number-typed element (empty, or
\* strings only) does not raise and returns a record whose min, max, sum and
\* average are all undefined or NaN.
C23_NoNumbersAllUndefined ==
    (op = "calculateStats" /\ args.array.t = "array"
        /\ Len(NumbersOf(before)) = 0) =>
        /\ error = NoError
        /\ result.t = "object"
        /\ \A i \in 1..4 : result.e[i] \in {Undefined, NotANumber}

\* C24: replaceWithFlatValues on a filled array with values that are present
\* leaves the array equal to the values in their order, repeats kept (or to
\* the one value when values is not a list), so it is as long as the values;
\* on a missing or empty array it raises 'Provided array is null or empty.',
\* whatever the values, and on a filled array with missing or empty values it
\* raises 'Provided values is null or empty.'.
C24_ReplacedByValues ==
    (op = "replaceWithFlatValues" /\ args.array.t \in {"array", "null", "undefined"}) =>
        IF Missing(args.array)
        THEN error = "Provided array is null or empty." /\ array = before
        ELSE IF Missing(args.values)
        THEN error = "Provided values is null or empty." /\ array = before
        ELSE /\ Ok
             /\ array = Items(args.values)
             /\ Len(array) = Len(Items(args.values))

\* A filled array was replaced by the list [0, 0]: it now holds 0 twice,
\* whatever it held before.
C24_Witness ==
    /\ op = "replaceWithFlatValues" /\ Ok
    /\ args.values = Arr(<<Num(0), Num(0)>>)
    /\ Len(before) = 3 /\ ~Member(before, Num(0))
    /\ array = <<Num(0), Num(0)>>

\* What the last call makes of the array it started from when the logger
\* works (LOG_MODE left unset)
Unlogged ==
    CASE op = "addUniqueValues" ->
             addUniqueValues(before, args.array, args.values, args.position)
      [] op = "replaceWithFlatValues" ->
             replaceWithFlatValues(before, args.array, args.values)
      [] op = "removeValues" -> removeValues(before, args.array, args.values)
      [] op = "removeByCount" ->
             removeByCount(before, args.array, args.count, args.position)
      [] op = "convertToStrings" -> convertToStrings(before)
      [] op = "bubbleSort" -> bubbleSort(before, args.array, args.order)
      [] op = "quickSort" -> quickSort(before, args.array, args.order)
      [] op = "getElements" ->
             getElements(before, args.array, args.count, args.position)
      [] op = "filterNumbers" -> filterNumbers(before, args.array)

\* C25: the array an operation leaves, the value it returns and the error it
\* raises are the same under every value of LOG_MODE (console, file, both,
\* anything else) as with a logger that works.
C25_SinkIndependent ==
    op \in {"addUniqueValues", "replaceWithFlatValues", "removeValues",
            "removeByCount", "convertToStrings", "bubbleSort", "quickSort",
            "getElements", "filterNumbers"} =>
        /\ array = Unlogged.array
        /\ error = Unlogged.error
        /\ result = Unlogged.result

\* C26: an operation called with null or undefined as the array raises one of
\* its validation errors, never the error of a built-in met while a guard is
\* evaluated.
C26_NullArrayFailsValidation ==
    (op # "none" /\ args.array \in {Null, Undefined}) => ValidationFailed

\* C27: after convertToStrings every element is a string, the string form of
\* the element that was at the same index, so length and order are kept; the
\* caller's array itself is changed and nothing is returned; converting the
\* array again changes nothing.
C27_ConvertedInPlace ==
    op = "convertToStrings" =>
        /\ Ok /\ result = Undefined
        /\ Len(array) = Len(before)
        /\ \A i \in 1..Len(array) :
               array[i].t = "string" /\ array[i].s = StringOf(before[i])
        /\ convertToStrings(array).array = array

\* The array [0, false, '0'] was converted: it is now ['0', 'false', '0'].
C27_Witness ==
    /\ op = "convertToStrings" /\ Ok
    /\ before = <<Num(0), Bool(FALSE), Str(<<"0">>)>>
    /\ array = <<Str(<<"0">>), Str(<<"f", "a", "l", "s", "e">>), Str(<<"0">>)>>

\* How often v occurs in s
Occurrences(s, v) == Cardinality({i \in 1..Len(s) : s[i] = v})

\* C29: after bubbleSort or quickSort in either order the array holds the
\* elements it held before, each as often as before, so it has the same
\* length: nothing is lost, added or duplicated.
C29_SortPermutes ==
    (IsSort /\ Ok) =>
        /\ Len(array) = Len(before)
        /\ \A i \in 1..Len(before) :
               Occurrences(array, before[i]) = Occurrences(before, before[i])

\* The elements of s that are x or y, in the order they have in s
RECURSIVE Only(_, _, _)
Only(s, x, y) ==
    IF Len(s) = 0 THEN <<>>
    ELSE IF Head(s) \in {x, y} THEN <<Head(s)>> \o Only(Tail(s), x, y)
         ELSE Only(Tail(s), x, y)

\* C28: both sorts are stable in both orders: two elements that compareValues
\* takes for equal (3 and '3') stand after the sort in the relative order
\* they had before it.  Stated for arrays of two or more elements.
C28_TiesKeepOrder ==
    (IsSort /\ Ok /\ Len(before) >= 2) =>
        \A i, j \in 1..Len(before) :
            compareValues(before[i], before[j]) = 0 =>
                Only(array, before[i], before[j]) = Only(before, before[i], before[j])

\* C30: quickSort returns on every array of numbers and strings that passes
\* validation, whatever compareValues makes of its elements: no call of sort
\* hands a list as long as its own to sort again (the pivot is never in the
\* left or right bucket), and the calls of sort open at once never outnumber
\* the elements of the array.
C30_QuickSortTerminates ==
    (op = "quickSort" /\ args.array.t = "array" /\ Len(before) > 0
        /\ EffOrder \in {Asc, Desc}) =>
        /\ error = NoError
        /\ ~sort(before, EffOrder).overflow
        /\ sort(before, EffOrder).depth <= Len(before)

\* quickSort has sorted an array of three elements holding a tie and a string
\* that is not numeric, through three nested calls of sort.
C30_Witness ==
    /\ op = "quickSort" /\ Ok
    /\ Len(before) = 3
    /\ Member(before, Str(<<"1", "x">>))
    /\ \E i, j \in 1..3 : i # j /\ compareValues(before[i], before[j]) = 0
    /\ sort(before, EffOrder).depth = 3

====
